---- MODULE Spec2Model ----
(***************************************************************************)
(* Bulk file-ingestion pipeline of calificacion-tributaria-nuam            *)
(* (backend/calificaciones): the ingestion job orchestrator, the           *)
(* factor/monto classifier, the ledger upsert and the entity-level save    *)
(* of CalificacionTributaria.                                              *)
(*                                                                         *)
(* Decimal values are fixed-point integers: Uno stands for Decimal("1").   *)
(* Python's Decimal divides with 28 significant digits; the model divides  *)
(* with PrecisionDecimal fractional digits (round-half-even, as the        *)
(* default Decimal context does), which is coarser than the code.          *)
(* A missing value (None / NaN) is the empty tuple, a present value v is   *)
(* the one-element tuple <<v>>.                                            *)
(***************************************************************************)
EXTENDS Integers, Sequences, FiniteSets, TLC

\* ------------------------------------------------------------------ bounds
PrecisionDecimal == 6

\* ------------------------------------------------------------ decimal model
RECURSIVE Pot10(_)
Pot10(k) == IF k = 0 THEN 1 ELSE 10 * Pot10(k - 1)

Uno == Pot10(PrecisionDecimal)
Tolerancia == Uno + Uno \div 10000
Medio == Uno \div 2
MedioMas == Medio + Uno \div 10000
Dos == 2 * Uno

None == <<>>
Some(v) == <<v>>
Val(o) == o[1]

Abs(x) == IF x < 0 THEN -x ELSE x

\* k fractional digits of r / t for 0 <= r < t, and the remainder left
RECURSIVE LargaDiv(_, _, _)
LargaDiv(r, t, k) ==
    IF k = 0 THEN <<0, r>>
    ELSE LET d    == (r * 10) \div t
             r2   == (r * 10) % t
             rest == LargaDiv(r2, t, k - 1)
         IN  <<d * Pot10(k - 1) + rest[1], rest[2]>>

\* Decimal.__truediv__ : v / t, t # 0, rounded half-even at the model precision
Dividir(v, t) ==
    LET av   == Abs(v)
        at   == Abs(t)
        ld   == LargaDiv(av % at, at, PrecisionDecimal)
        q    == (av \div at) * Uno + ld[1]
        rem  == ld[2]
        up   == (2 * rem > at) \/ (2 * rem = at /\ q % 2 = 1)
        mag  == IF up THEN q + 1 ELSE q
    IN  IF (v < 0) = (t < 0) THEN mag ELSE -mag

\* Decimal.quantize(Decimal("0.0001")): x rounded half-even to four digits
Cuantizar(x) ==
    LET u   == Uno \div 10000
        q   == Abs(x) \div u
        r   == Abs(x) % u
        up  == (2 * r > u) \/ (2 * r = u /\ q % 2 = 1)
        mag == (IF up THEN q + 1 ELSE q) * u
    IN  IF x < 0 THEN -mag ELSE mag

\* ------------------------------------------------------------ factor fields
IndicesFactor == 8 .. 19

RECURSIVE SumaDesde(_, _)
SumaDesde(f, i) ==
    IF i > 19 THEN 0
    ELSE (IF f[i] = None THEN 0 ELSE Val(f[i])) + SumaDesde(f, i + 1)

\* services.py _calcular_factor_actualizacion_desde_montos: sum of the present values
_calcular_factor_actualizacion_desde_montos(f) == SumaDesde(f, 8)

RECURSIVE EsMontoDesde(_, _, _)
EsMontoDesde(f, i, total) ==
    IF i > 19 THEN total > Tolerancia
    ELSE IF f[i] = None THEN EsMontoDesde(f, i + 1, total)
    ELSE IF Val(f[i]) > Uno THEN TRUE
    ELSE EsMontoDesde(f, i + 1, total + Val(f[i]))

RECURSIVE EsMontoSinBandaDesde(_, _, _)
EsMontoSinBandaDesde(f, i, total) ==
    IF i > 19 THEN total > Uno
    ELSE IF f[i] = None THEN EsMontoSinBandaDesde(f, i + 1, total)
    ELSE IF Val(f[i]) > Uno THEN TRUE
    ELSE EsMontoSinBandaDesde(f, i + 1, total + Val(f[i]))

\* mutant of _es_modo_monto: the total is compared with 1 instead of 1.0001
_es_modo_monto_sin_banda(f) == EsMontoSinBandaDesde(f, 8, 0)

_es_modo_monto(f) == EsMontoDesde(f, 8, 0)

\* mutant of _normalizar_factores_a_1: no guard for a zero total, and the
\* division is truncated towards zero at 4 digits short of the precision
_normalizar_factores_truncado(f) ==
    LET total == SumaDesde(f, 8)
    IN  [i \in IndicesFactor |->
            IF f[i] = None \/ total = 0 THEN Some(0)
            ELSE Some((Dividir(Val(f[i]), total) \div 1000) * 1000)]

_normalizar_factores_a_1(f) ==
    LET total == SumaDesde(f, 8)
    IN  IF total = 0
        THEN [i \in IndicesFactor |-> Some(0)]
        ELSE [i \in IndicesFactor |->
                 IF f[i] = None THEN Some(0)
                 ELSE Some(Dividir(Val(f[i]), total))]

\* ------------------------------------------------------- text conversions
MaxCalificaciones == 2
AnioActual == 2026

\* integers whose decimal spelling occurs in the model (str(n) / int(s))
RangoEnteros ==
    {50} \cup ((AnioActual - 1) .. AnioActual)
         \cup (9999 .. (10000 + MaxCalificaciones + 1))

\* str.isdigit() and int() over the spellings of the model
TextoDeEntero == [n \in RangoEnteros |-> ToString(n)]
EsDigito(s) == \E n \in RangoEnteros : TextoDeEntero[n] = s
EnteroDe(s) == CHOOSE n \in RangoEnteros : TextoDeEntero[n] = s

\* str.strip() over the texts of the model
Strip(s) ==
    CASE s \in {" ", "  "} -> ""
      [] s = " C1 "        -> "C1"
      [] OTHER             -> s

\* a table cell: NaN (pandas missing value), a text or a number
CeldaNaN == <<"nan">>
Texto(s) == <<"str", s>>
Numero(n) == <<"num", n>>

\* str(v).strip() of a cell of an identifying column (services.py 431-441)
StrStrip(c) ==
    IF c[1] = "nan" THEN "nan"
    ELSE IF c[1] = "str" THEN Strip(c[2])
    ELSE ToString(c[2])

\* Decimal(s) of a text after the separator rewriting of line 237; None when
\* the constructor raises
DecimalDeTexto(s) ==
    CASE s = "0,5" -> Some(Medio)
      [] s = "0.5" -> Some(5 * Uno)
      [] s = "2"   -> Some(Dos)
      [] OTHER     -> None

_normalizar_valor_decimal(valor) ==
    IF valor = None THEN None
    ELSE IF valor[1] = "nan" THEN None
    ELSE IF valor[1] = "num" THEN Some(valor[2])
    ELSE IF Strip(valor[2]) = "" THEN None
    ELSE DecimalDeTexto(Strip(valor[2]))

\* ------------------------------------------------------------- exceptions
NoExc == [clase |-> "", detalle |-> {}]
Exc(c, d) == [clase |-> c, detalle |-> d]

\* ---------------------------------------------------------------- Pais
\* Pais.objects.get_or_create(codigo_iso3=c, defaults={"nombre": c})
PaisesCon(ps, c) == {k \in 1 .. Len(ps) : ps[k].codigo_iso3 = c}

_detectar_pais_y_crear_si_falta(ps, codigo) ==
    LET m == PaisesCon(ps, codigo)
    IN  IF Cardinality(m) > 1
        THEN [exc |-> Exc("MultipleObjectsReturned", {"Pais"}), pais |-> None, paises |-> ps]
        ELSE IF Cardinality(m) = 1
        THEN [exc |-> NoExc, pais |-> Some(CHOOSE k \in m : TRUE), paises |-> ps]
        ELSE [exc |-> NoExc, pais |-> Some(Len(ps) + 1),
              paises |-> Append(ps, [codigo_iso3 |-> codigo, nombre |-> codigo])]

\* ------------------------------------------------- CalificacionTributaria
ESTADO_CHOICES == {"pendiente", "aprobada", "rechazada"}

NombresFactor == [i \in 8 .. 19 |-> "factor_" \o ToString(i)]
NombreFactor(i) == NombresFactor[i]

\* concrete fields of the model (own and inherited)
CamposModelo ==
    {"id", "creado_en", "actualizado_en", "activo",
     "ejercicio", "mercado", "fecha_pago", "descripcion", "secuencia_evento",
     "dividendo", "valor_historico", "valor_actualizado", "factor_actualizacion",
     "isfut", "estado", "corredor", "pais", "pais_detectado", "archivo_origen",
     "identificador_cliente", "instrumento", "moneda", "observaciones",
     "creado_por", "actualizado_por"}
    \cup {NombreFactor(i) : i \in IndicesFactor}

suma_factores(rec) == SumaDesde([i \in IndicesFactor |-> Some(rec.factores[i])], 8)

\* DecimalValidator(max_digits, decimal_places = 5) of a DecimalField
DecimalValido(v, enteros) ==
    /\ v % Pot10(PrecisionDecimal - 5) = 0
    /\ Abs(v) \div Uno < Pot10(enteros)

\* Model.clean_fields: blank, choices and decimal validators of the fields
clean_fields(rec) ==
    (IF rec.estado \in ESTADO_CHOICES THEN {} ELSE {"estado: invalid_choice"})
    \cup (IF rec.identificador_cliente # "" THEN {} ELSE {"identificador_cliente: blank"})
    \cup (IF rec.instrumento # "" THEN {} ELSE {"instrumento: blank"})
    \cup (IF \A i \in IndicesFactor : DecimalValido(rec.factores[i], 2)
          THEN {} ELSE {"factor: decimal"})
    \cup (IF DecimalValido(rec.factor_actualizacion, 5)
          THEN {} ELSE {"factor_actualizacion: decimal"})

\* mutant of clean: the factor-sum check is missing
clean_sin_suma(rec) ==
    IF rec.secuencia_evento = "" THEN {}
    ELSE IF ~EsDigito(rec.secuencia_evento)
    THEN {"secuencia_evento: Debe ser numerica."}
    ELSE IF EnteroDe(rec.secuencia_evento) < 10000
    THEN {"secuencia_evento: Debe ser mayor o igual a 10000."}
    ELSE {}

\* CalificacionTributaria.clean
clean(rec) ==
    IF suma_factores(rec) > Uno
    THEN {"La suma de factores no puede ser mayor a 1."}
    ELSE IF rec.secuencia_evento = "" THEN {}
    ELSE IF ~EsDigito(rec.secuencia_evento)
    THEN {"secuencia_evento: Debe ser numerica."}
    ELSE IF EnteroDe(rec.secuencia_evento) < 10000
    THEN {"secuencia_evento: Debe ser mayor o igual a 10000."}
    ELSE {}

\* mutant of full_clean: nothing is validated
full_clean_sin_validar(rec) == {}

\* Model.full_clean: the errors of clean_fields and of clean, collected
full_clean(rec) == clean_fields(rec) \cup clean(rec)

\* mutant of MaxSecuencia: the stored sequences are not consulted
MaxSecuenciaSinConsulta(cals) == 9999

\* Max of Cast(secuencia_evento) over the records with a sequence, or 9999
MaxSecuencia(cals) ==
    LET con == {k \in 1 .. Len(cals) : cals[k].secuencia_evento # ""}
        ns  == {EnteroDe(cals[k].secuencia_evento) : k \in con}
    IN  IF ns = {} THEN 9999 ELSE CHOOSE n \in ns : \A m \in ns : m <= n

\* the end of save: full_clean, then the write of Model.save
GuardarValidado(cals, pk, rec, errs) ==
    IF errs # {}
    THEN [exc |-> Exc("ValidationError", errs), calificaciones |-> cals]
    ELSE [exc |-> NoExc,
          calificaciones |-> IF pk = 0 THEN Append(cals, rec)
                             ELSE [cals EXCEPT ![pk] = rec]]

\* mutant of ConSecuencia: a record without a sequence is left without one
ConSecuenciaSinAsignar(cals, rec) == rec

\* the start of save: a record without a sequence takes the next one
ConSecuencia(cals, rec) ==
    IF rec.secuencia_evento = ""
    THEN [rec EXCEPT !.secuencia_evento = TextoDeEntero[MaxSecuencia(cals) + 1]]
    ELSE rec

GuardarConSecuencia(cals, pk, rec) == GuardarValidado(cals, pk, rec, full_clean(rec))

\* CalificacionTributaria.save of the record with primary key pk (pk = 0: a
\* new record, inserted with the next key)
save(cals, pk, rec) == GuardarConSecuencia(cals, pk, ConSecuencia(cals, rec))

\* ------------------------------------------------------- ledger upsert
\* keys of the defaults dict built at services.py 347-362
ClavesDefaults ==
    {"corredor", "archivo_carga", "mercado", "ejercicio", "secuencia_evento",
     "pais", "estado", "valor_historico", "valor_actualizado",
     "factor_actualizacion"}
    \cup {NombreFactor(i) : i \in IndicesFactor}

ClavesLookup ==
    {"corredor", "identificador_cliente", "instrumento", "ejercicio",
     "mercado", "secuencia_evento"}

\* row_dict.get(key) or Decimal("0")
ODecimalCero(o) == IF o = None THEN 0 ELSE Val(o)

\* the record the defaults and the lookup describe (ejercicio already an int)
RegistroDeFila(row_dict, corredor, ejercicio) ==
    [corredor              |-> corredor,
     identificador_cliente |-> row_dict.identificador_cliente,
     instrumento           |-> row_dict.instrumento,
     ejercicio             |-> ejercicio,
     mercado               |-> row_dict.mercado,
     secuencia_evento      |-> row_dict.secuencia_evento,
     pais                  |-> row_dict.pais,
     estado                |-> "VIGENTE",
     factor_actualizacion  |-> row_dict.factor_actualizacion,
     factores              |-> [i \in IndicesFactor |-> ODecimalCero(row_dict.factores[i])]]

\* records the lookup of update_or_create selects
Coincidencias(cals, r) ==
    {k \in 1 .. Len(cals) :
        /\ cals[k].corredor = r.corredor
        /\ cals[k].identificador_cliente = r.identificador_cliente
        /\ cals[k].instrumento = r.instrumento
        /\ cals[k].ejercicio = r.ejercicio
        /\ cals[k].mercado = r.mercado
        /\ cals[k].secuencia_evento = r.secuencia_evento}

\* the result of update_or_create from the result of the save it made
ResultadoDeGuardar(g, creado) ==
    [exc |-> g.exc, created |-> creado /\ g.exc = NoExc,
     calificaciones |-> g.calificaciones]

\* QuerySet._extract_model_params: the names that are no field of the model
ParametrosInvalidos == (ClavesDefaults \cup ClavesLookup) \ CamposModelo

UpdateOrCreateEn(cals, r, m) ==
    IF Cardinality(m) > 1
    THEN [exc |-> Exc("MultipleObjectsReturned", {"CalificacionTributaria"}),
          created |-> FALSE, calificaciones |-> cals]
    ELSE IF m = {}
    THEN IF ParametrosInvalidos # {}
         THEN [exc |-> Exc("FieldError", ParametrosInvalidos),
               created |-> FALSE, calificaciones |-> cals]
         ELSE ResultadoDeGuardar(save(cals, 0, r), TRUE)
    ELSE ResultadoDeGuardar(save(cals, CHOOSE k \in m : TRUE, r), FALSE)

\* CalificacionTributaria.objects.update_or_create(**lookup, defaults=defaults):
\* get; when nothing matches, create after the check of the parameter names;
\* when one record matches, setattr of the defaults and save
update_or_create(cals, r) == UpdateOrCreateEn(cals, r, Coincidencias(cals, r))

\* ejercicio of the row, or str(timezone.now().year)
EjercicioDe(row_dict) ==
    IF row_dict.ejercicio = "" THEN TextoDeEntero[AnioActual] ELSE row_dict.ejercicio

\* _obtener_o_crear_calificacion_from_row(row_dict, corredor, archivo_carga)
_obtener_o_crear_calificacion_from_row(cals, row_dict, corredor) ==
    IF row_dict.identificador_cliente = "" \/ row_dict.instrumento = ""
    THEN [exc |-> Exc("ValidationError", {"Faltan datos obligatorios"}),
          created |-> FALSE, calificaciones |-> cals]
    ELSE IF ~EsDigito(EjercicioDe(row_dict))
    THEN [exc |-> Exc("ValueError", {"ejercicio"}),
          created |-> FALSE, calificaciones |-> cals]
    ELSE update_or_create(cals, RegistroDeFila(row_dict, corredor,
                                               EnteroDe(EjercicioDe(row_dict))))

\* ------------------------------------------------------ country detector
\* features of the texts of the model that the patterns of PATRONES read
ContieneRUT(s) == s \in {"12.345.678-9"}
DigitosSeguidos(s) ==
    CASE s \in {"900123456", "NIT 900123456"} -> 9
      [] s = "20123456789"  -> 11
      [] s = "12.345.678-9" -> 3
      [] s \in {"C1", "I1"} -> 1
      [] OTHER              -> 0
PalabrasEn(s) ==
    CASE s = "BONO CHILE"    -> {"CHILE"}
      [] s = "NIT 900123456" -> {"NIT"}
      [] s = "LIMA"          -> {"LIMA"}
      [] OTHER               -> {}

\* str.upper() over the texts of the model
Upper(s) ==
    CASE s = "chl" -> "CHL"
      [] s = "nan" -> "NAN"
      [] s = "bono chile" -> "BONO CHILE"
      [] OTHER     -> s

\* scores in tenths: score_regex and score_keyword of each pattern
PuntajeDe(textos, rut, minDig, palabras, sRegex, sPalabra) ==
    (IF \E t \in textos :
            \/ (rut /\ ContieneRUT(t))
            \/ (~rut /\ DigitosSeguidos(t) >= minDig)
        THEN sRegex ELSE 0)
    + sPalabra * Cardinality({w \in palabras : \E t \in textos : w \in PalabrasEn(t)})

\* one turn of the loop that keeps the strictly best score
Mejor(actual, codigo, sc) == IF sc > actual[2] THEN <<codigo, sc>> ELSE actual

\* the threshold on the best score
Umbral(mejor) ==
    IF mejor[2] < 3 THEN [codigo |-> "", score |-> mejor[2]]
    ELSE [codigo |-> mejor[1], score |-> mejor[2]]

PuntajesDe(textos) ==
    Umbral(Mejor(Mejor(Mejor(<<"", 0>>,
        "CHL", PuntajeDe(textos, TRUE, 0, {"CHILE", "SANTIAGO", "RUT"}, 7, 3)),
        "COL", PuntajeDe(textos, FALSE, 5, {"COLOMBIA", "BOGOTA", "NIT"}, 6, 4)),
        "PER", PuntajeDe(textos, FALSE, 11, {"PERU", "LIMA", "RUC"}, 6, 4)))

\* DetectorPaisTributario.detectar_pais over the values of fila_dict
detectar_pais(valores) ==
    IF \A v \in valores : v = ""
    THEN [codigo |-> "", score |-> 0]
    ELSE PuntajesDe({Upper(v) : v \in valores})

\* ------------------------------------------------------ header normalizer
\* str.strip().lower() over the column labels of the model
StripLower(s) ==
    CASE s = "RUT"          -> "rut"
      [] s = " Instrumento" -> "instrumento"
      [] s = "Secuencia"    -> "secuencia"
      [] s = " Moneda "     -> "moneda"
      [] s = "FACTOR_8"     -> "factor_8"
      [] s = "F19"          -> "f19"
      [] s = " Año"         -> "año"
      [] OTHER              -> s

reemplazos ==
    [id_cliente |-> "identificador_cliente", idcliente |-> "identificador_cliente",
     cliente |-> "identificador_cliente", identificador |-> "identificador_cliente",
     rut |-> "identificador_cliente", nit |-> "identificador_cliente",
     ruc |-> "identificador_cliente",
     secuencia_eventos |-> "secuencia_evento", secuenciaeventos |-> "secuencia_evento",
     secuencia |-> "secuencia_evento",
     instrumento_financiero |-> "instrumento", cod_instrumento |-> "instrumento",
     codigo_instrumento |-> "instrumento",
     ejercicio_fiscal |-> "ejercicio", anio |-> "ejercicio",
     anio_ejercicio |-> "ejercicio",
     mercado_valor |-> "mercado", mercado_valores |-> "mercado",
     mercado_de_valores |-> "mercado",
     estado_calificacion |-> "estado", estado_ct |-> "estado",
     valor_hist |-> "valor_historico", valor_h |-> "valor_historico",
     valorhist |-> "valor_historico",
     valor_actualizado |-> "valor_actualizado", valor_act |-> "valor_actualizado",
     valoract |-> "valor_actualizado"]
    @@ ("año" :> "ejercicio")

patrones ==
    [i \in IndicesFactor |->
        {NombreFactor(i), "factor" \o ToString(i), "f" \o ToString(i),
         "fac_" \o ToString(i)}]
PatronesFactor(i) == patrones[i]

\* the lookups on the stripped, lower-cased name: the synonym table, the
\* spellings of the factor columns, the name itself
NormalizarNombre(nombre) ==
    IF nombre \in DOMAIN reemplazos THEN reemplazos[nombre]
    ELSE IF \E i \in IndicesFactor : nombre \in PatronesFactor(i)
    THEN NombreFactor(CHOOSE i \in IndicesFactor : nombre \in PatronesFactor(i))
    ELSE nombre

\* mutant of _normalizar_header: rut is renamed to a name that is itself a
\* synonym
_normalizar_header_por_sinonimo(nombre_columna) ==
    IF nombre_columna = "" THEN ""
    ELSE IF StripLower(nombre_columna) = "rut" THEN "identificador"
    ELSE NormalizarNombre(StripLower(nombre_columna))

_normalizar_header(nombre_columna) ==
    IF nombre_columna = "" THEN ""
    ELSE NormalizarNombre(StripLower(nombre_columna))

\* ------------------------------------------------------------ the table
\* a row of the frame _normalizar_headers_dataframe returns: the columns
\* renamed to their normalized names
_normalizar_headers_dataframe(fila) ==
    [n \in {_normalizar_header(c) : c \in DOMAIN fila} |->
        fila[CHOOSE c \in DOMAIN fila : _normalizar_header(c) = n]]

\* _extraer_valor: the cell of the column named col, or None when the frame
\* has no such column
_extraer_valor(fila, col) ==
    IF col \in DOMAIN fila THEN Some(fila[col]) ELSE None

\* str(_extraer_valor(row, col, "")).strip()
TextoDeColumna(fila, col) ==
    IF _extraer_valor(fila, col) = None THEN ""
    ELSE StrStrip(Val(_extraer_valor(fila, col)))

\* "pais" in str(k).lower(), over the normalized column names of the model
NombreConPais(c) == c \in {"pais", "pais_origen"}

\* ------------------------------------------------------- one table row
CODIGOS_COLUMNA_PAIS == {"CHL", "COL", "PER"}

\* the Pais of a detected code, none for an empty code
PaisDeCodigo(ps, codigo) ==
    IF codigo # ""
    THEN _detectar_pais_y_crear_si_falta(ps, codigo)
    ELSE [exc |-> NoExc, pais |-> None, paises |-> ps]

CodigoDeColumna(valor_pais) ==
    IF valor_pais \in CODIGOS_COLUMNA_PAIS THEN valor_pais ELSE ""

ColumnasPais(fila) == {c \in DOMAIN fila : NombreConPais(c)}

\* the country phase of a row (services.py 443-461): the explicit column if
\* the frame has one, else the detector over client and instrument
PaisDeFila(fila, ps, cliente, instrumento) ==
    IF ColumnasPais(fila) # {}
    THEN PaisDeCodigo(ps, CodigoDeColumna(
             Upper(StrStrip(fila[CHOOSE c \in ColumnasPais(fila) : TRUE]))))
    ELSE PaisDeCodigo(ps, detectar_pais({cliente, instrumento}).codigo)

\* factor_8 .. factor_19 of the row through _normalizar_valor_decimal
FactoresDeFila(fila) ==
    [i \in IndicesFactor |->
        IF _extraer_valor(fila, NombreFactor(i)) = None THEN None
        ELSE _normalizar_valor_decimal(Val(_extraer_valor(fila, NombreFactor(i))))]

\* mutant of ClasificarFactores: the factors are rescaled in Factor mode too
ClasificarFactoresReescala(factores) ==
    [exc |-> NoExc, monto |-> _es_modo_monto(factores),
     factores |-> _normalizar_factores_a_1(factores),
     factor_actualizacion |-> Uno]

\* the classifier step of a FACTOR run (services.py 468-478)
ClasificarFactores(factores) ==
    IF _es_modo_monto(factores)
    THEN [exc |-> NoExc, monto |-> TRUE,
          factores |-> _normalizar_factores_a_1(factores),
          factor_actualizacion |-> Uno]
    ELSE [exc |-> NoExc, monto |-> FALSE, factores |-> factores,
          factor_actualizacion |-> SumaDesde(factores, 8)]

\* the classifier step of a MONTO run (services.py 610-619)
ClasificarMonto(factores) ==
    IF ~_es_modo_monto(factores)
    THEN [exc |-> Exc("ValidationError", {"no parecen montos"}), monto |-> FALSE,
          factores |-> factores, factor_actualizacion |-> 0]
    ELSE [exc |-> NoExc, monto |-> TRUE,
          factores |-> _normalizar_factores_a_1(factores),
          factor_actualizacion |-> Uno]

Clasificar(tipo, factores) ==
    IF tipo = "FACTOR" THEN ClasificarFactores(factores) ELSE ClasificarMonto(factores)

\* the row_dict of a row
RowDict(fila, cliente, instrumento, p, c) ==
    [identificador_cliente |-> cliente,
     instrumento           |-> instrumento,
     mercado               |-> TextoDeColumna(fila, "mercado"),
     ejercicio             |-> TextoDeColumna(fila, "ejercicio"),
     secuencia_evento      |-> TextoDeColumna(fila, "secuencia_evento"),
     pais                  |-> p.pais,
     factores              |-> c.factores,
     factor_actualizacion  |-> c.factor_actualizacion]

ResultadoUpsert(u, p, c, row_dict) ==
    [exc |-> u.exc, created |-> u.created, calificaciones |-> u.calificaciones,
     paises |-> p.paises, row_dict |-> Some(row_dict), monto |-> c.monto]

Upsert(cals, corredor, p, c, row_dict) ==
    ResultadoUpsert(_obtener_o_crear_calificacion_from_row(cals, row_dict, corredor),
                    p, c, row_dict)

ProcesarCon(fila, cals, ps, corredor, cliente, instrumento, p, c) ==
    IF p.exc # NoExc
    THEN [exc |-> p.exc, created |-> FALSE, calificaciones |-> cals,
          paises |-> ps, row_dict |-> None, monto |-> FALSE]
    ELSE IF c.exc # NoExc
    THEN [exc |-> c.exc, created |-> FALSE, calificaciones |-> cals,
          paises |-> p.paises, row_dict |-> None, monto |-> FALSE]
    ELSE Upsert(cals, corredor, p, c, RowDict(fila, cliente, instrumento, p, c))

ProcesarIds(tipo, fila, cals, ps, corredor, cliente, instrumento) ==
    ProcesarCon(fila, cals, ps, corredor, cliente, instrumento,
                PaisDeFila(fila, ps, cliente, instrumento),
                Clasificar(tipo, FactoresDeFila(fila)))

ProcesarNormalizada(tipo, fila, cals, ps, corredor) ==
    ProcesarIds(tipo, fila, cals, ps, corredor,
                TextoDeColumna(fila, "identificador_cliente"),
                TextoDeColumna(fila, "instrumento"))

\* the body of the try of one loop iteration: the row_dict built, the
\* exception raised (NoExc if none), and the tables as the row leaves them
ProcesarFila(tipo, cruda, cals, ps, corredor) ==
    ProcesarNormalizada(tipo, _normalizar_headers_dataframe(cruda), cals, ps, corredor)

\* ------------------------------------------------- operations of the API
\* mutant of FactoresCalculados: the quotients are not quantized
FactoresSinCuantizar(rec, total) ==
    [rec EXCEPT !.factores = [i \in IndicesFactor |-> Dividir(rec.factores[i], total)]]

\* calcular_factores, steps 1 and 2: every factor divided by the total and
\* quantized, assigned to the record
FactoresCalculados(rec, total) ==
    [rec EXCEPT !.factores =
        [i \in IndicesFactor |-> Cuantizar(Dividir(rec.factores[i], total))]]

\* the record the serializer of POST /calificaciones/ hands to create():
\* identificador_cliente and corredor are read-only fields of the serializer
RegistroApi(corredor, instrumento, f) ==
    [corredor |-> corredor, identificador_cliente |-> "", instrumento |-> instrumento,
     ejercicio |-> AnioActual, mercado |-> "", secuencia_evento |-> "",
     pais |-> None, estado |-> "pendiente", factor_actualizacion |-> 0,
     factores |-> f]

\* copiar: model_to_dict gives the key of corredor, and create(**data) takes
\* only a Corredor instance for it
copiar(cals, pk) ==
    [exc |-> Exc("ValueError", {"CalificacionTributaria.corredor must be a Corredor instance"}),
     calificaciones |-> cals]

\* ------------------------------------------------------------- the state
MaxFilas == 2
MaxCorridas == 2

VARIABLES
    calificaciones,   \* table of CalificacionTributaria, in primary-key order
    paises,           \* table of Pais, in primary-key order
    archivo_carga,    \* the persisted ArchivoCarga row of the job
    archivo,          \* the uploaded file the job points to
    email_contacto,   \* whether the job's Corredor has an email_contacto
    pc,               \* position of the orchestrator
    idx,              \* index of the next row of df.iterrows()
    cuenta,           \* total_registros, nuevos, actualizados, rechazados
    errores,          \* the local list errores_por_fila
    excepcion,        \* exception that left the orchestrator (NoExc if none)
    corrida,          \* number of runs started on the job
    reloj,            \* timezone.now()
    ultima,           \* outcome of the last row processed
    historial,        \* per finished run: summary and size of the ledger
    ultima_op,        \* last direct operation on the ledger
    factores_in,      \* input vector of the classifier
    clasif,           \* output of the classifier
    entrada,          \* a function or endpoint and the argument it is called with
    retorno,          \* what the call returned
    perfiles,         \* table of UsuarioPerfil, in primary-key order
    en_curso          \* per request thread: the save() it is in the middle of

varsDB == <<calificaciones, paises>>
varsJob == <<archivo_carga, archivo, email_contacto, pc, idx, cuenta, errores,
             excepcion, corrida, reloj, ultima, historial>>
varsClasif == <<factores_in, clasif>>
varsLlamada == <<entrada, retorno>>
varsSitio == <<perfiles, en_curso>>
vars == <<calificaciones, paises, archivo_carga, archivo, email_contacto, pc, idx,
          cuenta, errores, excepcion, corrida, reloj, ultima, historial,
          ultima_op, factores_in, clasif, entrada, retorno, perfiles, en_curso>>

\* ----------------------------------------------------------- input files
EtiquetaFactor(i) == IF i = 8 THEN "f8" ELSE NombreFactor(i)

\* factor cells of a row: the first three columns given, the rest NaN
CeldasFactor(a, b, c) ==
    [i \in IndicesFactor |->
        IF i = 8 THEN a ELSE IF i = 9 THEN b ELSE IF i = 10 THEN c ELSE CeldaNaN]

VMedio == CeldasFactor(Numero(Uno \div 4), Numero(Uno \div 4), CeldaNaN)
VMonto == CeldasFactor(Numero(Dos), Numero(Dos), CeldaNaN)
VTercios == CeldasFactor(Numero(Uno), Numero(Uno), Numero(Uno))

\* a row: the cells of the labelled columns and of the twelve factor columns
Fila(base, facs) ==
    [c \in (DOMAIN base) \cup {EtiquetaFactor(i) : i \in IndicesFactor} |->
        IF c \in DOMAIN base THEN base[c]
        ELSE facs[CHOOSE i \in IndicesFactor : EtiquetaFactor(i) = c]]

FilasA ==
    {Fila(("RUT" :> Texto("C1")) @@ (" Instrumento" :> Texto("I1")), VMedio),
     Fila(("RUT" :> Texto("12.345.678-9")) @@ (" Instrumento" :> Texto("I1")), VTercios),
     Fila(("RUT" :> Texto(" C1 ")) @@ (" Instrumento" :> Texto("  ")), VMonto)}

FilasB ==
    {Fila(("RUT" :> Texto("C1")) @@ (" Instrumento" :> Texto("I1"))
            @@ ("Secuencia" :> Texto("10000")) @@ ("pais" :> Texto("chl")), VMedio),
     Fila(("RUT" :> Texto("C1")) @@ (" Instrumento" :> Texto("I1"))
            @@ ("Secuencia" :> CeldaNaN) @@ ("pais" :> Texto("XX")), VMonto)}

FilasC ==
    {Fila(("RUT" :> Texto("C1")), VMedio),
     Fila(("RUT" :> Texto("C1")) @@ (" Instrumento" :> CeldaNaN), VMedio)}

SecuenciasHasta(S, n) == UNION {[1 .. k -> S] : k \in 0 .. n}

Tablas == SecuenciasHasta(FilasA, MaxFilas) \cup SecuenciasHasta(FilasB, MaxFilas)
              \cup SecuenciasHasta(FilasC, MaxFilas)

\* ext: extension of nombre_original; legible: the parser of that format
\* reads the bytes; etiquetas_texto: every column label of the frame is a str
\* (a frame built from PDF rows is labelled 0, 1, ...); filas: the data rows
Archivos ==
    {[ext |-> ".csv", legible |-> TRUE, etiquetas_texto |-> TRUE, filas |-> t] :
        t \in Tablas}
    \cup {[ext |-> ".txt", legible |-> TRUE, etiquetas_texto |-> TRUE, filas |-> <<>>],
          [ext |-> ".csv", legible |-> FALSE, etiquetas_texto |-> TRUE, filas |-> <<>>],
          [ext |-> ".xlsx", legible |-> FALSE, etiquetas_texto |-> TRUE, filas |-> <<>>],
          [ext |-> ".pdf", legible |-> FALSE, etiquetas_texto |-> FALSE, filas |-> <<>>],
          [ext |-> ".pdf", legible |-> TRUE, etiquetas_texto |-> FALSE, filas |-> <<>>]}
    \cup {[ext |-> e, legible |-> TRUE, etiquetas_texto |-> FALSE, filas |-> <<f>>] :
            e \in {".pdf", ".xlsx"}, f \in FilasC}

CuentaCero == [total_registros |-> 0, nuevos |-> 0, actualizados |-> 0, rechazados |-> 0]

ArchivoCargaNuevo(tipo) ==
    [tipo_carga |-> tipo, estado_proceso |-> "pendiente", started_at |-> None,
     finished_at |-> None, tiempo_procesamiento_seg |-> None,
     resumen_proceso |-> None, errores_por_fila |-> None]

\* the request threads of the site
Procesos == {1, 2}

\* empty tables, and no save() under way
InitDB ==
    /\ calificaciones = <<>>
    /\ paises = <<>>
    /\ perfiles = <<>>
    /\ en_curso = [p \in Procesos |-> None]

InitJobEn(A, tipos, emails) ==
    /\ archivo \in A
    /\ \E tipo \in tipos : archivo_carga = ArchivoCargaNuevo(tipo)
    /\ email_contacto \in emails
    /\ pc = "inactivo"
    /\ idx = 0
    /\ cuenta = CuentaCero
    /\ errores = <<>>
    /\ excepcion = NoExc
    /\ corrida = 0
    /\ reloj = 0
    /\ ultima = None
    /\ historial = <<>>

InitClasifFijo == factores_in = [i \in IndicesFactor |-> None] /\ clasif = None

\* no function called on its own
InitLlamadaFija == entrada = None /\ retorno = None

\* a job that is never started: the rest of the system at rest
ArchivoTxt == [ext |-> ".txt", legible |-> TRUE, etiquetas_texto |-> TRUE, filas |-> <<>>]
InitJobFijo == InitJobEn({ArchivoTxt}, {"FACTOR"}, {FALSE})

Init ==
    /\ InitDB
    /\ InitJobEn(Archivos, {"FACTOR", "MONTO"}, BOOLEAN)
    /\ InitClasifFijo
    /\ InitLlamadaFija
    /\ ultima_op = None

\* ---------------------------------------------------------- orchestrator
EXTENSIONES == {".csv", ".xls", ".xlsx", ".pdf"}

\* _cargar_dataframe_desde_archivo followed by _normalizar_headers_dataframe:
\* the exception the try block of the orchestrator sees (NoExc if none)
ErrorDeCarga(a) ==
    IF a.ext \notin EXTENSIONES
    THEN Exc("ValidationError", {"Extension de archivo no soportada"})
    ELSE IF ~a.legible
    THEN Exc("ValidationError", {"Error al leer"})
    ELSE IF a.ext = ".pdf" /\ a.filas = <<>>
    THEN Exc("ValidationError", {"No se pudo extraer ninguna fila del PDF."})
    ELSE IF ~a.etiquetas_texto
    THEN Exc("AttributeError", {"object has no attribute 'strip'"})
    ELSE NoExc

\* notificar_resultado_archivo: the exception it raises (NoExc if none)
notificar_resultado_archivo(conEmail) ==
    IF ~conEmail THEN NoExc
    ELSE Exc("TypeError", {"send_email_async() got an unexpected keyword argument"})

\* mutant of Resumen: the rejected rows are left out of the summary
ResumenSinRechazados(c) ==
    [total_registros |-> c.total_registros, nuevos |-> c.nuevos,
     actualizados |-> c.actualizados, rechazados |-> 0, detalle |-> None]

\* resumen_proceso as the final save writes it from the counters
Resumen(c) == [total_registros |-> c.total_registros, nuevos |-> c.nuevos,
               actualizados |-> c.actualizados, rechazados |-> c.rechazados,
               detalle |-> None]

\* the job row after the save that ends a run
Finalizado(job, estado, resumen, errs, ahora) ==
    [job EXCEPT !.finished_at = Some(ahora),
                !.tiempo_procesamiento_seg = Some(ahora - Val(job.started_at)),
                !.estado_proceso = estado,
                !.resumen_proceso = Some(resumen),
                !.errores_por_fila = Some(errs)]

\* the state the orchestrator persists after the row loop
EstadoFinal(c) == "ok"

\* mutant of IniciarProceso: the start is stamped but the state is not moved
IniciarProcesoSinEstado ==
    /\ pc \in {"inactivo", "terminado", "abortado"}
    /\ corrida < MaxCorridas
    /\ reloj' = reloj + 1
    /\ archivo_carga' = [archivo_carga EXCEPT !.started_at = Some(reloj + 1)]
    /\ pc' = "cargar"
    /\ corrida' = corrida + 1
    /\ excepcion' = NoExc
    /\ idx' = 0 /\ cuenta' = CuentaCero /\ errores' = <<>> /\ ultima' = None
    /\ UNCHANGED <<calificaciones, paises, archivo, email_contacto, historial,
                   ultima_op, factores_in, clasif, entrada, retorno, varsSitio>>

\* procesar_archivo_carga_factores / _monto, up to the first save
IniciarProceso ==
    /\ pc \in {"inactivo", "terminado", "abortado"}
    /\ corrida < MaxCorridas
    /\ reloj' = reloj + 1
    /\ archivo_carga' = [archivo_carga EXCEPT !.started_at = Some(reloj + 1),
                                              !.estado_proceso = "procesando"]
    /\ pc' = "cargar"
    /\ corrida' = corrida + 1
    /\ excepcion' = NoExc
    /\ idx' = 0 /\ cuenta' = CuentaCero /\ errores' = <<>> /\ ultima' = None
    /\ UNCHANGED <<calificaciones, paises, archivo, email_contacto, historial,
                   ultima_op, factores_in, clasif, entrada, retorno, varsSitio>>

\* the effect of the try block that loads the table, which raised e
AplicarCarga(e) ==
    IF e = NoExc
    THEN /\ pc' = "filas"
         /\ UNCHANGED <<archivo_carga, reloj, excepcion, historial>>
    ELSE IF e.clase = "ValidationError"
    THEN /\ reloj' = reloj + 1
         /\ archivo_carga' =
               Finalizado(archivo_carga, "error",
                          [Resumen(CuentaCero) EXCEPT !.detalle = Some(e.detalle)],
                          <<>>, reloj + 1)
         /\ excepcion' = notificar_resultado_archivo(email_contacto)
         /\ historial' = Append(historial,
                                [resumen |-> Resumen(CuentaCero),
                                 registros |-> Len(calificaciones)])
         /\ pc' = "terminado"
    ELSE /\ excepcion' = e
         /\ pc' = "abortado"
         /\ UNCHANGED <<archivo_carga, reloj, historial>>

\* the try block that loads the table and its except ValidationError
CargarTabla ==
    /\ pc = "cargar"
    /\ AplicarCarga(ErrorDeCarga(archivo))
    /\ idx' = 0 /\ cuenta' = CuentaCero /\ errores' = <<>>
    /\ UNCHANGED <<calificaciones, paises, archivo, email_contacto, corrida, ultima,
                   ultima_op, factores_in, clasif, entrada, retorno, varsSitio>>

\* mutant of AplicarFila: a rejected row is counted but leaves no error entry
AplicarFilaSinRegistro(fila, r) ==
    /\ calificaciones' = r.calificaciones
    /\ paises' = r.paises
    /\ cuenta' =
         [total_registros |-> cuenta.total_registros + 1,
          nuevos |-> cuenta.nuevos + (IF r.exc = NoExc /\ r.created THEN 1 ELSE 0),
          actualizados |-> cuenta.actualizados
                             + (IF r.exc = NoExc /\ ~r.created THEN 1 ELSE 0),
          rechazados |-> cuenta.rechazados + (IF r.exc # NoExc THEN 1 ELSE 0)]
    /\ errores' = errores
    /\ ultima' = Some([idx |-> idx, exc |-> r.exc, created |-> r.created,
                       row_dict |-> r.row_dict, monto |-> r.monto])

\* the effect of one iteration whose try block ended as r says: the counters,
\* and the except Exception that records the row (fila: the normalized row)
AplicarFila(fila, r) ==
    /\ calificaciones' = r.calificaciones
    /\ paises' = r.paises
    /\ cuenta' =
         [total_registros |-> cuenta.total_registros + 1,
          nuevos |-> cuenta.nuevos + (IF r.exc = NoExc /\ r.created THEN 1 ELSE 0),
          actualizados |-> cuenta.actualizados
                             + (IF r.exc = NoExc /\ ~r.created THEN 1 ELSE 0),
          rechazados |-> cuenta.rechazados + (IF r.exc # NoExc THEN 1 ELSE 0)]
    /\ errores' = IF r.exc = NoExc THEN errores
                  ELSE Append(errores, [fila |-> idx + 1, error |-> r.exc,
                                        datos |-> fila])
    /\ ultima' = Some([idx |-> idx, exc |-> r.exc, created |-> r.created,
                       row_dict |-> r.row_dict, monto |-> r.monto])

\* one iteration of the row loop, its except Exception included
IterarFila(tipo) ==
    /\ pc = "filas"
    /\ idx < Len(archivo.filas)
    /\ archivo_carga.tipo_carga = tipo
    /\ AplicarFila(_normalizar_headers_dataframe(archivo.filas[idx + 1]),
                   ProcesarFila(tipo, archivo.filas[idx + 1], calificaciones, paises, "A"))
    /\ idx' = idx + 1
    /\ UNCHANGED <<archivo_carga, archivo, email_contacto, pc, excepcion, corrida,
                   reloj, historial, ultima_op, factores_in, clasif, entrada, retorno, varsSitio>>

FilaFactores == IterarFila("FACTOR")

FilaMonto == IterarFila("MONTO")

\* after the loop: the final save and the notification
FinalizarProceso ==
    /\ pc = "filas"
    /\ idx = Len(archivo.filas)
    /\ reloj' = reloj + 1
    /\ archivo_carga' = Finalizado(archivo_carga, EstadoFinal(cuenta), Resumen(cuenta),
                                   errores, reloj + 1)
    /\ excepcion' = notificar_resultado_archivo(email_contacto)
    /\ historial' = Append(historial, [resumen |-> Resumen(cuenta),
                                       registros |-> Len(calificaciones)])
    /\ pc' = "terminado"
    /\ UNCHANGED <<calificaciones, paises, archivo, email_contacto, idx, cuenta,
                   errores, corrida, ultima, ultima_op, factores_in, clasif, entrada, retorno, varsSitio>>

\* ------------------------------------------- direct writes to the ledger
FactoresRegistro(a, b) ==
    [i \in IndicesFactor |-> IF i = 8 THEN a ELSE IF i = 9 THEN b ELSE 0]

\* six factors of 0.1: calcular_factores turns each into 0.1667
FactoresSeis == [i \in IndicesFactor |-> IF i <= 13 THEN Uno \div 10 ELSE 0]

FactoresAdmin ==
    {FactoresRegistro(Uno \div 4, Uno \div 4), FactoresRegistro(3 * (Uno \div 4), Medio)}

FactoresFormulario == FactoresAdmin \cup {FactoresSeis}

RegistrosAdmin ==
    {[corredor |-> "A", identificador_cliente |-> "C1", instrumento |-> "I1",
      ejercicio |-> AnioActual, mercado |-> "", secuencia_evento |-> sec,
      pais |-> None, estado |-> "pendiente", factor_actualizacion |-> 0,
      factores |-> f] :
        sec \in {"", "10000"}, f \in FactoresAdmin}

\* the ledger after an operation, and what the operation was: the record it
\* tried to persist had a factor sum above 1 (excede), CalificacionTributaria.save
\* was reached (via_save), the exception it ended with, the ledger left as it was
Registrar(op, rec, exc, viaSave, cals) ==
    /\ calificaciones' = cals
    /\ ultima_op' = Some([op |-> op, exc |-> exc.clase,
                          excede |-> suma_factores(rec) > Uno,
                          secuencia |-> rec.secuencia_evento,
                          via_save |-> viaSave,
                          sin_cambio |-> cals = calificaciones])

\* the effect on the ledger of a save that ended as g says
AplicarGuardado(op, rec, g) == Registrar(op, rec, g.exc, TRUE, g.calificaciones)

GuardarEn(op, pk, rec) == AplicarGuardado(op, rec, save(calificaciones, pk, rec))

\* a record added through the admin site (ModelAdmin.save_model -> save),
\* the form filled with one of the records of R
AdminCrearDe(R) ==
    /\ Len(calificaciones) < MaxCalificaciones
    /\ \E rec \in R : GuardarEn("admin_crear", 0, rec)
    /\ UNCHANGED <<paises, archivo_carga, archivo, email_contacto, pc, idx, cuenta,
                   errores, excepcion, corrida, reloj, ultima, historial,
                   factores_in, clasif, entrada, retorno, varsSitio>>

AdminCrear == AdminCrearDe(RegistrosAdmin)

\* the forms of the ledger: those of RegistrosAdmin that carry a sequence,
\* and records of a second corredor without a sequence, with one below
\* 10000 and with one that is not a number
RegistrosLedger ==
    {r \in RegistrosAdmin : r.secuencia_evento # ""}
    \cup {[corredor |-> "B", identificador_cliente |-> "C1", instrumento |-> "I1",
            ejercicio |-> AnioActual, mercado |-> "", secuencia_evento |-> sec,
            pais |-> None, estado |-> "pendiente", factor_actualizacion |-> 0,
            factores |-> FactoresRegistro(Uno \div 4, Uno \div 4)] :
              sec \in {"", "50", "1e4"}}

AdminCrearLedger == AdminCrearDe(RegistrosLedger)

\* POST /calificaciones/ : perform_create -> serializer.save -> create -> save
ApiCrear ==
    /\ \E f \in FactoresFormulario :
          GuardarEn("api_crear", 0, RegistroApi("A", "I1", f))
    /\ UNCHANGED <<paises, varsJob, varsClasif, varsLlamada, varsSitio>>

\* PUT/PATCH /calificaciones/{pk}/ : perform_update -> serializer.save -> save
ApiActualizar ==
    /\ \E pk \in 1 .. Len(calificaciones), f \in FactoresFormulario :
          GuardarEn("api_actualizar", pk, [calificaciones[pk] EXCEPT !.factores = f])
    /\ UNCHANGED <<paises, varsJob, varsClasif, varsLlamada, varsSitio>>

\* POST /calificaciones/{pk}/calcular-factores/
calcular_factores(pk, total) ==
    IF total <= 0
    THEN Registrar("calcular_factores", calificaciones[pk],
                   Exc("Http400", {"La suma actual de factores es 0; no se puede normalizar."}),
                   FALSE, calificaciones)
    ELSE GuardarEn("calcular_factores", pk, FactoresCalculados(calificaciones[pk], total))

CalcularFactores ==
    /\ \E pk \in 1 .. Len(calificaciones) :
          calcular_factores(pk, suma_factores(calificaciones[pk]))
    /\ UNCHANGED <<paises, varsJob, varsClasif, varsLlamada, varsSitio>>

\* POST /calificaciones/{pk}/aprobar/
aprobar(pk, esAdmin) ==
    IF ~esAdmin
    THEN Registrar("aprobar", calificaciones[pk], Exc("PermissionDenied", {}), FALSE,
                   calificaciones)
    ELSE GuardarEn("aprobar", pk, [calificaciones[pk] EXCEPT !.estado = "aprobada"])

Aprobar ==
    /\ \E pk \in 1 .. Len(calificaciones), esAdmin \in BOOLEAN : aprobar(pk, esAdmin)
    /\ UNCHANGED <<paises, varsJob, varsClasif, varsLlamada, varsSitio>>

\* POST /calificaciones/{pk}/copiar/
Copiar ==
    /\ \E pk \in 1 .. Len(calificaciones) :
          Registrar("copiar", [calificaciones[pk] EXCEPT !.estado = "pendiente"],
                    copiar(calificaciones, pk).exc, FALSE,
                    copiar(calificaciones, pk).calificaciones)
    /\ UNCHANGED <<paises, varsJob, varsClasif, varsLlamada, varsSitio>>

\* the admin forms of the records calcular-factores is called on: factors
\* of 0.25 and 0.25, six of 0.1, all 0, -0.5 and 0.25, three of 0.3
FactoresCalculo ==
    {FactoresRegistro(Uno \div 4, Uno \div 4), FactoresSeis, FactoresRegistro(0, 0),
     FactoresRegistro(-Medio, Uno \div 4),
     [i \in IndicesFactor |-> IF i <= 10 THEN 3 * (Uno \div 10) ELSE 0]}

RegistrosCalculo ==
    {[corredor |-> "A", identificador_cliente |-> "C1", instrumento |-> "I1",
      ejercicio |-> AnioActual, mercado |-> "", secuencia_evento |-> "10000",
      pais |-> None, estado |-> "pendiente", factor_actualizacion |-> 0,
      factores |-> f] : f \in FactoresCalculo}

AdminCrearCalculo == AdminCrearDe(RegistrosCalculo)

\* row_dicts handed to the ledger upsert: sums 0.5 and 1.0001, with and
\* without a sequence
RowDictsUpsert ==
    {[identificador_cliente |-> "C1", instrumento |-> "I1", mercado |-> "",
      ejercicio |-> "", secuencia_evento |-> sec, pais |-> None,
      factores |-> [i \in IndicesFactor |-> Some(f[i])],
      factor_actualizacion |-> SumaDesde([i \in IndicesFactor |-> Some(f[i])], 8)] :
        sec \in {"", "10000"},
        f \in {FactoresRegistro(Uno \div 4, Uno \div 4), FactoresRegistro(Medio, MedioMas)}}

AplicarUpsert(rec, u) ==
    Registrar("upsert", rec, u.exc,
              Cardinality(Coincidencias(calificaciones, rec)) = 1, u.calificaciones)

\* _obtener_o_crear_calificacion_from_row called on a row_dict
UpsertFila ==
    /\ \E rd \in RowDictsUpsert :
          AplicarUpsert(RegistroDeFila(rd, "A", EnteroDe(EjercicioDe(rd))),
                        _obtener_o_crear_calificacion_from_row(calificaciones, rd, "A"))
    /\ UNCHANGED <<paises, varsJob, varsClasif, varsLlamada, varsSitio>>

\* ------------------------------------------- the countries of the site
MaxPaises == 2

\* a Pais added through the admin site: the form is validated against
\* unique_together (nombre, codigo_iso3) and saved
AdminCrearPais ==
    /\ Len(paises) < MaxPaises
    /\ \E nombre \in {"Chile", "CHL"} :
          /\ \A k \in 1 .. Len(paises) :
                ~(paises[k].nombre = nombre /\ paises[k].codigo_iso3 = "CHL")
          /\ paises' = Append(paises, [codigo_iso3 |-> "CHL", nombre |-> nombre])
    /\ UNCHANGED <<calificaciones, varsJob, ultima_op, varsClasif, varsLlamada, varsSitio>>

\* the admin form of a record with one of the stored countries selected
RegistrosConPais ==
    {[corredor |-> "A", identificador_cliente |-> "C1", instrumento |-> "I1",
      ejercicio |-> AnioActual, mercado |-> "", secuencia_evento |-> "10000",
      pais |-> Some(k), estado |-> "pendiente", factor_actualizacion |-> 0,
      factores |-> FactoresRegistro(Uno \div 4, Uno \div 4)] :
        k \in 1 .. Len(paises)}

AdminCrearConPais == AdminCrearDe(RegistrosConPais)

\* frames with a column named pais: a valid code, and a value that is no
\* code next to a client identifier shaped as a RUT
FilasConColumnaPais ==
    {Fila(("RUT" :> Texto("C1")) @@ (" Instrumento" :> Texto("I1"))
            @@ ("Secuencia" :> Texto("10000")) @@ ("pais" :> Texto("chl")), VMedio),
     Fila(("RUT" :> Texto("12.345.678-9")) @@ (" Instrumento" :> Texto("I1"))
            @@ ("Secuencia" :> Texto("10000")) @@ ("pais" :> Texto("XX")), VMedio)}

\* frames without a country column, of rows the detector finds no country in
FilasSinColumnaPais ==
    {Fila(("RUT" :> Texto("C1")) @@ (" Instrumento" :> Texto("I1"))
            @@ ("Secuencia" :> Texto("10000")), VMedio)}

ArchivosPais ==
    {[ext |-> ".csv", legible |-> TRUE, etiquetas_texto |-> TRUE, filas |-> t] :
        t \in SecuenciasHasta(FilasConColumnaPais, MaxFilas)
                \cup SecuenciasHasta(FilasSinColumnaPais, MaxFilas)}

\* ------------------------------------------------------- the classifier
ValoresEntrada == {0, Medio, MedioMas, Uno, Dos, -Dos}

\* the columns of the input vectors that carry a value; the others are missing
IndicesEntrada == {8, 9, 19}

VectoresEntrada ==
    {[i \in IndicesFactor |-> IF i \in IndicesEntrada THEN g[i] ELSE None] :
        g \in [IndicesEntrada -> {None} \cup {Some(v) : v \in ValoresEntrada}]}
    \cup {[i \in IndicesFactor |-> Some(Medio)],
          [i \in IndicesFactor |-> Some((i - 7) * (Uno \div 10))]}

InitClasif ==
    /\ InitDB
    /\ InitJobFijo
    /\ ultima_op = None
    /\ factores_in \in VectoresEntrada
    /\ clasif = None
    /\ InitLlamadaFija

\* the classifier and normalizer step of a row of a FACTOR run
ClasificarEnFactores ==
    /\ clasif = None
    /\ clasif' = Some(ClasificarFactores(factores_in))
    /\ UNCHANGED <<varsDB, varsJob, ultima_op, factores_in, varsLlamada, varsSitio>>

\* the classifier and normalizer step of a row of a MONTO run
ClasificarEnMonto ==
    /\ clasif = None
    /\ clasif' = Some(ClasificarMonto(factores_in))
    /\ UNCHANGED <<varsDB, varsJob, ultima_op, factores_in, varsLlamada, varsSitio>>

\* ------------------------------------------------------- specifications
Next ==
    \/ IniciarProceso
    \/ CargarTabla
    \/ FilaFactores
    \/ FilaMonto
    \/ FinalizarProceso
    \/ AdminCrear

\* the ingestion job, next to the admin site writing to the ledger
Spec == Init /\ [][Next]_vars

InitLedger ==
    InitDB /\ InitJobFijo /\ InitClasifFijo /\ InitLlamadaFija /\ ultima_op = None

NextLedger ==
    \/ AdminCrearLedger
    \/ ApiCrear
    \/ ApiActualizar
    \/ CalcularFactores
    \/ Aprobar
    \/ Copiar
    \/ UpsertFila

\* every operation that persists a CalificacionTributaria
SpecLedger == InitLedger /\ [][NextLedger]_vars

\* ---------------------------------------- the functions called directly
Llamada(f, arg) == Some(<<f, arg>>)

\* fila_dict of the detector: client and instrument, each None or a text
TextosDetector ==
    {"", "C1", "12.345.678-9", "NIT 900123456", "bono chile", "20123456789", "LIMA"}

FilasDetector ==
    [{"identificador_cliente", "instrumento"} ->
        {None} \cup {Some(t) : t \in TextosDetector}]

\* str(v) of the values of fila_dict that are not None
ValoresDe(fila_dict) ==
    {Val(fila_dict[k]) : k \in {c \in DOMAIN fila_dict : fila_dict[c] # None}}

\* the values _normalizar_valor_decimal is called with
ValoresDecimal ==
    {None, CeldaNaN, Numero(0), Numero(Medio), Numero(Dos)}
    \cup {Texto(t) : t \in {"", " ", "  ", "0,5", "0.5", "2", "abc", "nan"}}

\* the column labels _normalizar_header is called with: every synonym, every
\* spelling of a factor column, the canonical names, labels with capitals and
\* blanks, and labels no rule knows
NombresCanonicos ==
    {reemplazos[k] : k \in DOMAIN reemplazos} \cup {NombreFactor(i) : i \in IndicesFactor}

Encabezados ==
    (DOMAIN reemplazos) \cup UNION {PatronesFactor(i) : i \in IndicesFactor}
        \cup NombresCanonicos
        \cup {"", "RUT", " Instrumento", "Secuencia", " Moneda ", "FACTOR_8", "F19",
              " Año", "pais", "moneda", "factor_7", "factor_20", "f7"}

InitLlamadas ==
    /\ InitDB
    /\ InitJobFijo
    /\ InitClasifFijo
    /\ ultima_op = None
    /\ entrada \in {Llamada("detectar_pais", d) : d \in FilasDetector}
                    \cup {Llamada("_normalizar_valor_decimal", v) : v \in ValoresDecimal}
                    \cup {Llamada("_normalizar_header", h) : h \in Encabezados}
    /\ retorno = None

Llamar(f, resultado) ==
    /\ retorno = None
    /\ Val(entrada)[1] = f
    /\ retorno' = Some(resultado)
    /\ UNCHANGED <<varsDB, varsJob, ultima_op, varsClasif, entrada, varsSitio>>

DetectarPais == Llamar("detectar_pais", detectar_pais(ValoresDe(Val(entrada)[2])))

NormalizarValorDecimal ==
    Llamar("_normalizar_valor_decimal", _normalizar_valor_decimal(Val(entrada)[2]))

\* the header of a column normalized, and the result normalized again
NormalizarHeader ==
    Llamar("_normalizar_header",
           [nombre |-> _normalizar_header(Val(entrada)[2]),
            otra_vez |-> _normalizar_header(_normalizar_header(Val(entrada)[2]))])

NextLlamadas == DetectarPais \/ NormalizarValorDecimal \/ NormalizarHeader

\* the detector and the two normalizers, each called once on one input
SpecLlamadas == InitLlamadas /\ [][NextLlamadas]_vars

\* ------------------------------------------ the endpoints of the jobs
\* the call procesar_archivo_carga(archivo_carga) of both endpoints against
\* the signature (archivo_carga, file_obj, corredor, delimiter=","): the
\* exception Python raises before the body runs (NoExc if the call binds)
PARAMETROS_REQUERIDOS == {"archivo_carga", "file_obj", "corredor"}

procesar_archivo_carga(argumentos) ==
    IF PARAMETROS_REQUERIDOS \subseteq argumentos THEN NoExc
    ELSE Exc("TypeError", {"missing required positional arguments"})

ArgumentosDelEndpoint == {"archivo_carga"}

Usuarios == {"staff", "corredor", "auditor"}

Respuesta(status, job) == [status |-> status, job |-> job]

\* the outcome of POST /cargas/subir/ : the response and the job row in the
\* database when the request ends
subir_archivo(usuario, adjunto) ==
    IF usuario \notin {"staff", "corredor"}
    THEN [respuesta |-> Respuesta(403, None), job |-> archivo_carga,
          archivo |-> archivo]
    ELSE IF adjunto = None
    THEN [respuesta |-> Respuesta(400, None), job |-> archivo_carga,
          archivo |-> archivo]
    ELSE [respuesta |-> Respuesta(201, Some(ArchivoCargaNuevo("FACTOR"))),
          job |-> ArchivoCargaNuevo("FACTOR"), archivo |-> Val(adjunto)]

AplicarSubida(usuario, adjunto, r) ==
    /\ entrada' = Llamada("subir_archivo", <<usuario, adjunto>>)
    /\ retorno' = Some(r.respuesta)
    /\ archivo_carga' = r.job
    /\ archivo' = r.archivo

\* POST /cargas/subir/ : the job is created pendiente, the call of the
\* pipeline raises, the except of the endpoint swallows it, and the job is
\* read back and returned
SubirArchivo ==
    /\ pc = "inactivo"
    /\ procesar_archivo_carga(ArgumentosDelEndpoint) # NoExc
    /\ \E usuario \in Usuarios, adjunto \in {None} \cup {Some(a) : a \in Archivos} :
          AplicarSubida(usuario, adjunto, subir_archivo(usuario, adjunto))
    /\ UNCHANGED <<varsDB, email_contacto, pc, idx, cuenta, errores, excepcion,
                   corrida, reloj, ultima, historial, ultima_op, varsClasif, varsSitio>>

\* the outcome of POST /cargas/{pk}/procesar/ : the exception of the call
\* of the pipeline is not caught
procesar(usuario) ==
    IF usuario \notin {"staff", "corredor"}
    THEN Respuesta(403, None)
    ELSE IF procesar_archivo_carga(ArgumentosDelEndpoint) # NoExc
    THEN Respuesta(500, None)
    ELSE Respuesta(200, Some(archivo_carga))

Procesar ==
    /\ pc = "inactivo"
    /\ \E usuario \in Usuarios :
          /\ entrada' = Llamada("procesar", <<usuario, None>>)
          /\ retorno' = Some(procesar(usuario))
    /\ UNCHANGED <<varsDB, varsJob, ultima_op, varsClasif, varsSitio>>

InitCargas ==
    /\ InitDB
    /\ InitJobEn(Archivos, {"FACTOR", "MONTO"}, BOOLEAN)
    /\ InitClasifFijo
    /\ InitLlamadaFija
    /\ ultima_op = None

NextCargas == SubirArchivo \/ Procesar

\* the two endpoints that start the pipeline on a job
SpecCargas == InitCargas /\ [][NextCargas]_vars

InitPais ==
    /\ InitDB
    /\ InitJobEn(ArchivosPais, {"FACTOR"}, {FALSE})
    /\ InitClasifFijo
    /\ InitLlamadaFija
    /\ ultima_op = None

NextPais ==
    \/ AdminCrearPais
    \/ AdminCrearConPais
    \/ IniciarProceso
    \/ CargarTabla
    \/ FilaFactores
    \/ FinalizarProceso

\* the FACTOR job over frames with and without a country column, next
\* to the admin site adding countries and records
SpecPais == InitPais /\ [][NextPais]_vars

NextCalculo == AdminCrearCalculo \/ CalcularFactores

\* calcular-factores on records added through the admin site
SpecCalculo == InitLedger /\ [][NextCalculo]_vars

NextClasif == ClasificarEnFactores \/ ClasificarEnMonto

\* the classifier over a set of input vectors
SpecClasif == InitClasif /\ [][NextClasif]_vars

\* ---------------------------------------------------- the user profiles
\* bound on the rows of UsuarioPerfil
MaxPerfiles == 3

\* the brokers a profile can reference
CorredoresDelSitio == {"A", "B"}

\* the choices of CambiarRolSerializer.rol
ROLES == {"admin", "corredor", "auditor"}

\* UsuarioPerfil.clean: a corredor or auditor needs a broker
UsuarioPerfil_clean(perfil) ==
    IF perfil.rol \in {"corredor", "auditor"} /\ perfil.corredor = None
    THEN Exc("ValidationError", {"corredor"})
    ELSE NoExc

\* RegistroCorredorView.post: the serializer creates the profile with
\* rol "corredor" and the broker it found or created
RegistroCorredor ==
    /\ Len(perfiles) < MaxPerfiles
    /\ \E c \in CorredoresDelSitio :
         /\ perfiles' = Append(perfiles, [rol |-> "corredor", corredor |-> Some(c)])
         /\ entrada' = Llamada("RegistroCorredorView.post", <<c>>)
    /\ retorno' = Some(201)
    /\ UNCHANGED <<varsDB, varsJob, ultima_op, varsClasif, en_curso>>

\* UsuarioPerfilAdmin: the form of the admin site runs clean() and saves
\* the profile only when it passes
AdminCrearPerfil ==
    /\ Len(perfiles) < MaxPerfiles
    /\ \E rol \in ROLES, c \in {None} \cup {Some(k) : k \in CorredoresDelSitio} :
         /\ entrada' = Llamada("UsuarioPerfilAdmin.add", <<rol, c>>)
         /\ IF UsuarioPerfil_clean([rol |-> rol, corredor |-> c]) = NoExc
            THEN /\ perfiles' = Append(perfiles, [rol |-> rol, corredor |-> c])
                 /\ retorno' = Some(302)
            ELSE /\ perfiles' = perfiles
                 /\ retorno' = Some(200)
    /\ UNCHANGED <<varsDB, varsJob, ultima_op, varsClasif, en_curso>>

\* who sends the PATCH: the user of a stored profile, or 0 for a staff
\* user that has no profile
Solicitantes == 0..MaxPerfiles

es_admin(solicitante) ==
    \/ solicitante = 0
    \/ /\ solicitante \in DOMAIN perfiles
       /\ perfiles[solicitante].rol = "admin"

\* CambiarRolView.patch: status of the response and the table after it;
\* the new role is assigned and saved with save(), which runs no clean()
CambiarRolView_patch(solicitante, usuario_id, rol) ==
    IF ~es_admin(solicitante) THEN [status |-> 403, perfiles |-> perfiles]
    ELSE IF usuario_id \notin DOMAIN perfiles THEN [status |-> 404, perfiles |-> perfiles]
    ELSE IF rol \notin ROLES THEN [status |-> 400, perfiles |-> perfiles]
    ELSE [status |-> 200, perfiles |-> [perfiles EXCEPT ![usuario_id].rol = rol]]

CambiarRol ==
    /\ \E solicitante \in Solicitantes, usuario_id \in 1..MaxPerfiles,
          rol \in ROLES \cup {"otro"} :
         /\ solicitante \in DOMAIN perfiles \/ solicitante = 0
         /\ entrada' = Llamada("CambiarRolView.patch", <<solicitante, usuario_id, rol>>)
         /\ retorno' = Some(CambiarRolView_patch(solicitante, usuario_id, rol).status)
         /\ perfiles' = CambiarRolView_patch(solicitante, usuario_id, rol).perfiles
    /\ UNCHANGED <<varsDB, varsJob, ultima_op, varsClasif, en_curso>>

NextPerfiles == RegistroCorredor \/ AdminCrearPerfil \/ CambiarRol

\* registration, the admin site and the role change over the profiles
SpecPerfiles == InitLedger /\ [][NextPerfiles]_vars

\* ------------------------------------------------- saves that interleave
\* the forms two request threads save at the same time: records of two
\* corredores without a sequence or with 10001, and one with 50
RegistrosConcurrentes ==
    {[corredor |-> c, identificador_cliente |-> "C1", instrumento |-> "I1",
      ejercicio |-> AnioActual, mercado |-> "", secuencia_evento |-> sec,
      pais |-> None, estado |-> "pendiente", factor_actualizacion |-> 0,
      factores |-> FactoresRegistro(Uno \div 4, Uno \div 4)] :
        c \in {"A", "B"}, sec \in {"", "10001"}}
    \cup {r \in RegistrosLedger : r.corredor = "B" /\ r.secuencia_evento = "50"}

\* the locals of a save() that has run its query: the form as it came, the
\* maximum the aggregate returned, the instance with its sequence set
Pendiente(cals, rec) ==
    [form |-> rec, max_seq |-> MaxSecuencia(cals), rec |-> ConSecuencia(cals, rec)]

\* save, lines 279-287: the aggregate query and the assignment of the
\* sequence; no lock is taken and no transaction is open
ComenzarGuardado(p) ==
    /\ en_curso[p] = None
    /\ Len(calificaciones) + Cardinality({q \in Procesos : en_curso[q] # None})
          < MaxCalificaciones
    /\ \E rec \in RegistrosConcurrentes :
          en_curso' = [en_curso EXCEPT ![p] = Some(Pendiente(calificaciones, rec))]
    /\ UNCHANGED <<varsDB, varsJob, ultima_op, varsClasif, varsLlamada, perfiles>>

\* mutant of RegistroEscrito: the sequence is read again when the row is written
RegistroEscritoTrasReleer(cals, pendiente) == ConSecuencia(cals, pendiente.form)

\* the instance that save() validates and inserts: the one in memory, with
\* the sequence it was given after the query
RegistroEscrito(cals, pendiente) == pendiente.rec

\* save, lines 289-290: full_clean and the INSERT, on the ledger as it is by
\* then
TerminarGuardado(p) ==
    /\ en_curso[p] # None
    /\ AplicarGuardado("admin_crear", Val(en_curso[p]).form,
                       GuardarConSecuencia(calificaciones, 0,
                                           RegistroEscrito(calificaciones, Val(en_curso[p]))))
    /\ en_curso' = [en_curso EXCEPT ![p] = None]
    /\ UNCHANGED <<paises, varsJob, varsClasif, varsLlamada, perfiles>>

NextConcurrente ==
    \/ \E p \in Procesos : ComenzarGuardado(p)
    \/ \E p \in Procesos : TerminarGuardado(p)

\* two request threads adding records to the ledger
SpecConcurrente == InitLedger /\ [][NextConcurrente]_vars

\* ------------------------------------------------------------ properties
\* a run starts: the state and the start time are persisted, nothing is read
InicioDeCorrida ==
    /\ pc \in {"inactivo", "terminado", "abortado"}
    /\ pc' = "cargar"
    /\ archivo_carga'.estado_proceso = "procesando"
    /\ archivo_carga'.started_at = Some(reloj')
    /\ idx' = 0
    /\ calificaciones' = calificaciones

\* a run ends: the job leaves "procesando" for one of the two final states
FinDeCorrida ==
    /\ archivo_carga.estado_proceso = "procesando"
    /\ archivo_carga'.estado_proceso \in {"ok", "error"}
    /\ pc' = "terminado"

PasoDeEstado ==
    /\ archivo_carga'.estado_proceso # archivo_carga.estado_proceso
          => (InicioDeCorrida \/ FinDeCorrida)
    /\ pc \in {"cargar", "filas"}
          => /\ archivo_carga.estado_proceso = "procesando"
             /\ archivo_carga.started_at # None

\* C1: the processing state of a job changes only into "procesando", at the
\* start of a run and together with the start time, or from "procesando" into
\* "ok" or "error"; the table is loaded and rows are read only in state
\* "procesando"; no step moves a job back to "pendiente" or between "ok" and
\* "error"
EstadoSoloAvanza == [][PasoDeEstado]_vars

\* a run that went from "procesando" to "ok"
CorridaTerminadaOk ==
    /\ pc = "terminado"
    /\ archivo_carga.estado_proceso = "ok"
    /\ archivo_carga.started_at # None
    /\ archivo_carga.finished_at # None

\* the run ended after the row loop (a structural failure leaves a detail)
FinDelBucle ==
    /\ pc = "terminado"
    /\ Val(archivo_carga.resumen_proceso).detalle = None

\* C2: when the row loop of a job completes, the persisted state is "ok" if
\* and only if no row was rejected, and "error" when some row was rejected
EstadoOkSiiSinRechazos ==
    FinDelBucle =>
        /\ (archivo_carga.estado_proceso = "ok")
              <=> (Val(archivo_carga.resumen_proceso).rechazados = 0)
        /\ Val(archivo_carga.resumen_proceso).rechazados > 0
              => archivo_carga.estado_proceso = "error"

\* the step of the row loop on a row whose processing raised
FilaRechazada ==
    /\ pc = "filas"
    /\ idx' = idx + 1
    /\ Val(ultima').exc # NoExc

RechazoRegistrado ==
    /\ cuenta'.rechazados = cuenta.rechazados + 1
    /\ cuenta'.nuevos = cuenta.nuevos
    /\ cuenta'.actualizados = cuenta.actualizados
    /\ Len(errores') = Len(errores) + 1
    /\ SubSeq(errores', 1, Len(errores)) = errores
    /\ errores'[Len(errores')] =
          [fila  |-> idx + 1,
           error |-> Val(ultima').exc,
           datos |-> _normalizar_headers_dataframe(archivo.filas[idx + 1])]
    /\ calificaciones' = calificaciones
    /\ excepcion' = NoExc
    /\ pc' = "filas"

\* C3: an exception raised while a row is processed is caught: the rejected
\* count grows by one, exactly one entry (row number, error, row data) is
\* appended to the error list, the loop goes on, and no classification record
\* of the ledger is rolled back or modified
RechazoPorFila == [][FilaRechazada => RechazoRegistrado]_vars

\* two rows of one run rejected, next to a record already in the ledger
DosFilasRechazadas ==
    /\ pc = "filas"
    /\ Len(errores) = 2
    /\ cuenta.rechazados = 2
    /\ Len(calificaciones) > 0

\* the step that loads a table whose loading or header normalization fails
FalloEstructural ==
    /\ pc = "cargar"
    /\ pc' # "cargar"
    /\ ErrorDeCarga(archivo) # NoExc

FinalizadoConError ==
    /\ pc' = "terminado"
    /\ archivo_carga'.estado_proceso = "error"
    /\ archivo_carga'.resumen_proceso # None
    /\ Val(archivo_carga'.resumen_proceso).total_registros = 0
    /\ Val(archivo_carga'.resumen_proceso).nuevos = 0
    /\ Val(archivo_carga'.resumen_proceso).actualizados = 0
    /\ Val(archivo_carga'.resumen_proceso).rechazados = 0
    /\ Val(archivo_carga'.resumen_proceso).detalle # None
    /\ archivo_carga'.errores_por_fila = Some(<<>>)
    /\ calificaciones' = calificaciones

\* C4: when loading the file fails structurally (extension, unreadable file,
\* PDF without rows, any failure building or header-normalizing the table)
\* the job is finalized at once with state "error", a summary of zeros with a
\* detail, an empty error list, and the ledger untouched
FalloEstructuralFinaliza == [][FalloEstructural => FinalizadoConError]_vars

\* C5: a file that parses but has no data rows is finalized with state
\* "error" and a detail, not with state "ok"
SinFilasEsError ==
    (pc = "terminado" /\ ErrorDeCarga(archivo) = NoExc /\ archivo.filas = <<>>)
        => /\ archivo_carga.estado_proceso = "error"
           /\ Val(archivo_carga.resumen_proceso).detalle # None

\* C6: every persisted record has a factor sum of at most 1, and an operation
\* that tries to persist a record with a larger sum ends with an exception
\* (ValidationError when it reached save) and leaves the ledger as it was
SumaAcotada ==
    /\ \A k \in 1 .. Len(calificaciones) : suma_factores(calificaciones[k]) <= Uno
    /\ (ultima_op # None /\ Val(ultima_op).excede)
          => /\ Val(ultima_op).exc # ""
             /\ Val(ultima_op).sin_cambio
             /\ Val(ultima_op).via_save => Val(ultima_op).exc = "ValidationError"

\* calcular-factores rounded the factors of a persisted record to a sum above
\* 1 and its save was refused
CalculoRechazado ==
    /\ ultima_op # None
    /\ Val(ultima_op).op = "calcular_factores"
    /\ Val(ultima_op).excede
    /\ Val(ultima_op).exc = "ValidationError"
    /\ Len(calificaciones) > 0

ClienteDe(f) == TextoDeColumna(_normalizar_headers_dataframe(f), "identificador_cliente")
InstrumentoDe(f) == TextoDeColumna(_normalizar_headers_dataframe(f), "instrumento")

\* a table every row of which names a client and an instrument, no two rows
\* the same pair
BienFormado(a) ==
    /\ ErrorDeCarga(a) = NoExc
    /\ a.filas # <<>>
    /\ \A i \in 1 .. Len(a.filas) :
          ClienteDe(a.filas[i]) # "" /\ InstrumentoDe(a.filas[i]) # ""
    /\ \A i, j \in 1 .. Len(a.filas) :
          i # j => \/ ClienteDe(a.filas[i]) # ClienteDe(a.filas[j])
                   \/ InstrumentoDe(a.filas[i]) # InstrumentoDe(a.filas[j])

PrimeraCorridaTodoNuevo ==
    /\ historial[1].resumen.nuevos = historial[1].resumen.total_registros
    /\ historial[1].resumen.actualizados = 0
    /\ historial[1].resumen.rechazados = 0

SegundaCorridaTodoActualizado ==
    /\ historial[2].resumen.actualizados = historial[2].resumen.total_registros
    /\ historial[2].resumen.nuevos = 0
    /\ historial[2].registros = historial[1].registros

\* C7: a well-formed file ingested twice against an initially empty ledger
\* gives new = total on the first run, updated = total and new = 0 on the
\* second, and the same number of records after both
ReingestaIdempotente ==
    (/\ ultima_op = None
     /\ archivo_carga.tipo_carga = "FACTOR"
     /\ BienFormado(archivo)
     /\ Len(historial) >= 1)
        => /\ PrimeraCorridaTodoNuevo
           /\ Len(historial) >= 2 => SegundaCorridaTodoActualizado

\* records with the key (tenant, client, instrument, fiscal year, market)
\* of a row_dict
ConClave(cals, rd) ==
    {k \in 1 .. Len(cals) :
        /\ cals[k].corredor = "A"
        /\ cals[k].identificador_cliente = rd.identificador_cliente
        /\ cals[k].instrumento = rd.instrumento
        /\ cals[k].ejercicio = EnteroDe(EjercicioDe(rd))
        /\ cals[k].mercado = rd.mercado}

\* the step of the row loop on a row that reached the upsert with a key
FilaConClave ==
    /\ pc = "filas"
    /\ idx' = idx + 1
    /\ Val(ultima').row_dict # None
    /\ Val(Val(ultima').row_dict).identificador_cliente # ""
    /\ Val(Val(ultima').row_dict).instrumento # ""
    /\ EsDigito(EjercicioDe(Val(Val(ultima').row_dict)))
    /\ Cardinality(ConClave(calificaciones, Val(Val(ultima').row_dict))) <= 1

UpsertHecho ==
    /\ Val(ultima').exc = NoExc
    /\ IF ConClave(calificaciones, Val(Val(ultima').row_dict)) = {}
       THEN /\ Val(ultima').created
            /\ Len(calificaciones') = Len(calificaciones) + 1
       ELSE /\ ~Val(ultima').created
            /\ Len(calificaciones') = Len(calificaciones)
    /\ Cardinality(ConClave(calificaciones', Val(Val(ultima').row_dict))) = 1

\* C8: the upsert of a row matches on (tenant, client, instrument, fiscal
\* year, market): a row whose key matches a record updates it (created =
\* false), a row whose key matches none creates exactly one (created = true),
\* and one record has the key afterwards
UpsertPorClave == [][FilaConClave => UpsertHecho]_vars

\* C9: the classifier selects Monto mode exactly when some value is above 1
\* or the total of the present values is above 1.0001
ModoMontoSii ==
    clasif # None =>
        (Val(clasif).monto
            <=> \/ \E i \in IndicesFactor :
                      factores_in[i] # None /\ Val(factores_in[i]) > Uno
                \/ SumaDesde(factores_in, 8) > Tolerancia)

\* a vector classified as factors with a total of exactly 1.0001
FactorEnElBorde ==
    /\ clasif # None
    /\ ~Val(clasif).monto
    /\ SumaDesde(factores_in, 8) = Tolerancia

SalidaNormalizada(total, salida) ==
    /\ \A i \in IndicesFactor : salida[i] # None
    /\ \A i \in IndicesFactor : factores_in[i] = None => Val(salida[i]) = 0
    /\ total = 0 => \A i \in IndicesFactor : Val(salida[i]) = 0
    /\ total # 0 =>
          /\ \A i \in IndicesFactor :
                factores_in[i] # None
                    => Val(salida[i]) = Dividir(Val(factores_in[i]), total)
          /\ Abs(SumaDesde(salida, 8) - Uno) <= Uno \div 10000

\* C10: in Monto mode every value is replaced by value / total and a missing
\* value by 0: the outputs sum to 1 within 0.0001 when the total is not 0,
\* all are 0 when the total is 0, and factor_actualizacion is 1
NormalizacionMonto ==
    (clasif # None /\ Val(clasif).monto) =>
        /\ SalidaNormalizada(SumaDesde(factores_in, 8), Val(clasif).factores)
        /\ Val(clasif).factor_actualizacion = Uno

\* a Monto vector whose quotients were rounded: the outputs do not sum to 1
MontoRedondeado ==
    /\ clasif # None
    /\ Val(clasif).monto
    /\ SumaDesde(factores_in, 8) # 0
    /\ SumaDesde(Val(clasif).factores, 8) # Uno

\* the factor values of the row the loop processed last, as the normalizer
\* of decimals read them
FactoresLeidos ==
    FactoresDeFila(_normalizar_headers_dataframe(archivo.filas[Val(ultima).idx + 1]))

\* the last row of a FACTOR run reached the upsert in Factor mode
FilaEnModoFactor ==
    /\ ultima # None
    /\ archivo_carga.tipo_carga = "FACTOR"
    /\ Val(ultima).row_dict # None
    /\ ~Val(ultima).monto

\* C11: in a FACTOR run a row that does not trigger Monto mode hands its
\* twelve factor values to the upsert unchanged, and its factor_actualizacion
\* is the sum of the values it supplied
FactoresSinReescalar ==
    FilaEnModoFactor =>
        /\ Val(Val(ultima).row_dict).factores = FactoresLeidos
        /\ Val(Val(ultima).row_dict).factor_actualizacion = SumaDesde(FactoresLeidos, 8)

\* a row of a FACTOR run with factors 0.25 and 0.25 reached the upsert
FilaDeMedioSinReescalar ==
    /\ FilaEnModoFactor
    /\ SumaDesde(FactoresLeidos, 8) = Medio
    /\ Val(Val(ultima).row_dict).factores[8] = Some(Uno \div 4)

\* the row the loop processed last, under its normalized column names
FilaUltima == _normalizar_headers_dataframe(archivo.filas[Val(ultima).idx + 1])

\* the row has no value in the column: the column is absent, or the cell is
\* missing, or its text is empty once stripped
SinValor(fila, col) ==
    \/ col \notin DOMAIN fila
    \/ fila[col] = CeldaNaN
    \/ fila[col][1] = "str" /\ Strip(fila[col][2]) = ""

FilaSinObligatorios ==
    /\ ultima # None
    /\ SinValor(FilaUltima, "identificador_cliente") \/ SinValor(FilaUltima, "instrumento")

\* the row passed the check of the mandatory data (services.py 337) and was
\* handed to update_or_create
PasoAlUpdateOrCreate ==
    /\ Val(ultima).row_dict # None
    /\ Val(Val(ultima).row_dict).identificador_cliente # ""
    /\ Val(Val(ultima).row_dict).instrumento # ""

Alta == Len(calificaciones') = Len(calificaciones) + 1

Nuevo == calificaciones'[Len(calificaciones')]

SecuenciaDe(rec) == EnteroDe(rec.secuencia_evento)

\* the sequence a save assigns: 10000 in an empty ledger, else one more than
\* the greatest sequence of the records of every corredor
SecuenciaSiguiente ==
    /\ \A k \in 1 .. Len(calificaciones) : SecuenciaDe(calificaciones[k]) < SecuenciaDe(Nuevo)
    /\ \/ Len(calificaciones) = 0 /\ SecuenciaDe(Nuevo) = 10000
       \/ \E k \in 1 .. Len(calificaciones) :
             SecuenciaDe(Nuevo) = SecuenciaDe(calificaciones[k]) + 1

PasoDeFila == idx' = idx + 1

\* the country the last row resolved, none when the row did not get that far
PaisResuelto(u) == IF u.row_dict = None THEN None ELSE Val(u.row_dict).pais

PaisGetOrCreateNoFalla ==
    ultima # None => Val(ultima).exc # Exc("MultipleObjectsReturned", {"Pais"})

\* the function f was called and returned
Llamado(f) == entrada # None /\ Val(entrada)[1] = f /\ retorno # None

Argumento == Val(entrada)[2]

\* C16: a fila_dict with a value shaped as a Chilean RUT is detected as CHL
\* with a score of 0.7 or more, whatever its other values
RUTSiempreChile ==
    (/\ Llamado("detectar_pais")
     /\ \E v \in ValoresDe(Argumento) : ContieneRUT(Upper(v)))
        => /\ Val(retorno).codigo = "CHL"
           /\ Val(retorno).score >= 7

\* C17: a row whose country column holds a value that is no code still gets
\* the country the detector finds in its client identifier and instrument
ColumnaInvalidaUsaDetector ==
    (/\ ultima # None
     /\ Val(ultima).row_dict # None
     /\ ColumnasPais(FilaUltima) # {}
     /\ \A c \in ColumnasPais(FilaUltima) :
           CodigoDeColumna(Upper(StrStrip(FilaUltima[c]))) = ""
     /\ detectar_pais({Val(Val(ultima).row_dict).identificador_cliente,
                       Val(Val(ultima).row_dict).instrumento}).codigo # "")
        => Val(Val(ultima).row_dict).pais # None

\* C18: a text that is no number does not come back as None from the
\* normalizer of decimals
TextoNoNumericoNoEsNone ==
    (Llamado("_normalizar_valor_decimal") /\ Argumento = Texto("abc"))
        => Val(retorno) # None

\* C19: normalizing a normalized header changes nothing, and a canonical
\* name is its own normal form
HeaderIdempotente ==
    Llamado("_normalizar_header") =>
        /\ Val(retorno).otra_vez = Val(retorno).nombre
        /\ Argumento \in NombresCanonicos => Val(retorno).nombre = Argumento

\* the label F19 was normalized to factor_19, and that to itself
HeaderF19Normalizado ==
    /\ Llamado("_normalizar_header")
    /\ Argumento = "F19"
    /\ Val(retorno).nombre = "factor_19"
    /\ Val(retorno).otra_vez = "factor_19"

\* C20: the error entry of the k-th data row carries the row number k + 1
FilaDeErrorDesdeDos ==
    (/\ ultima # None
     /\ Val(ultima).exc # NoExc
     /\ errores # <<>>)
        => errores[Len(errores)].fila = Val(ultima).idx + 2

\* C21: the job an upload returns is in a terminal state, with its summary
\* and its finish time persisted
SubidaDevuelveJobTerminado ==
    (/\ Llamado("subir_archivo")
     /\ Val(retorno).status = 201)
        => /\ Val(Val(retorno).job).estado_proceso \in {"ok", "error"}
           /\ Val(Val(retorno).job).resumen_proceso # None
           /\ Val(Val(retorno).job).finished_at # None
           /\ archivo_carga.estado_proceso # "pendiente"

\* C22: a run that finalized the job of a corredor with a contact address
\* hands the summary to the email dispatcher and ends without an exception
NotificacionSinError ==
    (pc = "terminado" /\ email_contacto) => excepcion = NoExc

\* the step was a call of calcular-factores
PasoCalculo == ultima_op' # None /\ Val(ultima_op').op = "calcular_factores"

SumaDe(fs) == suma_factores([factores |-> fs])

Cuantizados(rec) ==
    [i \in IndicesFactor |-> Cuantizar(Dividir(rec.factores[i], suma_factores(rec)))]

\* what calcular-factores does to the record pk
CalculoSobre(pk) ==
    /\ \A j \in 1 .. Len(calificaciones) : j # pk => calificaciones'[j] = calificaciones[j]
    /\ IF suma_factores(calificaciones[pk]) <= 0
       THEN /\ Val(ultima_op').exc = "Http400"
            /\ calificaciones' = calificaciones
       ELSE IF SumaDe(Cuantizados(calificaciones[pk])) <= Uno
       THEN /\ Val(ultima_op').exc = ""
            /\ calificaciones'[pk] =
                  [calificaciones[pk] EXCEPT !.factores = Cuantizados(calificaciones[pk])]
       ELSE /\ Val(ultima_op').exc = "ValidationError"
            /\ calificaciones' = calificaciones

\* C23 (as the code has it): calcular-factores fails and leaves the record
\* unchanged when the sum of its factors is 0 or negative; otherwise every
\* factor becomes factor/total quantized to 4 decimals, and the record is
\* written only if the sum of the new factors is at most 1, else it is left
\* unchanged and the call fails
CalculoDeFactores ==
    [][PasoCalculo =>
          /\ Len(calificaciones') = Len(calificaciones)
          /\ \E pk \in 1 .. Len(calificaciones) : CalculoSobre(pk)]_vars

\* three factors of 0.3 were replaced by three of 0.3333
TerciosCalculados ==
    /\ ultima_op # None
    /\ Val(ultima_op).op = "calcular_factores"
    /\ Val(ultima_op).exc = ""
    /\ \E pk \in 1 .. Len(calificaciones) :
          /\ calificaciones[pk].factores[8] = Cuantizar(Dividir(Uno, 3 * Uno))
          /\ SumaDe(calificaciones[pk].factores) = Uno - Uno \div 10000

\* C23 (as stated): calcular-factores refuses to normalize only a record
\* whose factors add up to exactly 0
CalculoFallaSoloConCero ==
    [][(PasoCalculo /\ Val(ultima_op').exc = "Http400")
          => \E pk \in 1 .. Len(calificaciones) :
                suma_factores(calificaciones[pk]) = 0]_vars

\* C24: every stored profile with role corredor or auditor references a
\* broker, whatever registrations and role changes came before
PerfilConCorredor ==
    \A k \in DOMAIN perfiles :
        perfiles[k].rol \in {"corredor", "auditor"} => perfiles[k].corredor # None

\* a save of thread p ends in this step
FinDeGuardado(p) == en_curso[p] # None /\ en_curso'[p] = None

\* C25: the sequence counter is read and written without a lock: a save
\* without a supplied sequence that passes validation inserts the maximum
\* it read plus one, whatever was inserted since it read
SecuenciaSinBloqueo ==
    [][\A p \in Procesos :
          (/\ FinDeGuardado(p)
           /\ Val(en_curso[p]).form.secuencia_evento = ""
           /\ Val(ultima_op').exc = "")
          => /\ Len(calificaciones') = Len(calificaciones) + 1
             /\ calificaciones'[Len(calificaciones')].secuencia_evento
                  = TextoDeEntero[Val(en_curso[p]).max_seq + 1]]_vars

\* C25: two saves without a sequence read the same maximum and both
\* stored the same number
SecuenciaDuplicada ==
    /\ Len(calificaciones) = 2
    /\ calificaciones[1].corredor # calificaciones[2].corredor
    /\ calificaciones[1].secuencia_evento = "10000"
    /\ calificaciones[2].secuencia_evento = "10000"
    /\ \A p \in Procesos : en_curso[p] = None

\* C26: when an exception has left the orchestrator, the job row it wrote
\* is in state procesando with no summary and no finish time, never ok or
\* error
ExcepcionDejaProcesando ==
    (pc \in {"terminado", "abortado"} /\ excepcion # NoExc)
        => /\ archivo_carga.estado_proceso = "procesando"
           /\ archivo_carga.resumen_proceso = None
           /\ archivo_carga.finished_at = None

\* C27: the summary of a job finalized after the row loop adds up: total =
\* new + updated + rejected, total = the rows of the table, and there is
\* one error entry per rejected row
ResumenCuadra ==
    archivo_carga.estado_proceso = "ok"
        => /\ Val(archivo_carga.resumen_proceso).total_registros
                = Val(archivo_carga.resumen_proceso).nuevos
                    + Val(archivo_carga.resumen_proceso).actualizados
                    + Val(archivo_carga.resumen_proceso).rechazados
           /\ Val(archivo_carga.resumen_proceso).total_registros = Len(archivo.filas)
           /\ Len(Val(archivo_carga.errores_por_fila))
                = Val(archivo_carga.resumen_proceso).rechazados

\* a job over a table of two rows, finalized after the loop with both rejected
JobDeDosFilasFinalizado ==
    /\ pc = "terminado"
    /\ archivo_carga.estado_proceso = "ok"
    /\ Val(archivo_carga.resumen_proceso).total_registros = 2
    /\ Len(Val(archivo_carga.errores_por_fila)) = 2

\* a sequence of digits only, of value 10000 or more
SecuenciaValida(sec) == sec # "" /\ EsDigito(sec) /\ EnteroDe(sec) >= 10000

\* C28: every record of the ledger has a sequence of digits of 10000 or
\* more; a save that is given a sequence that is not a number or is below
\* 10000 ends in a ValidationError and leaves the ledger as it was
SecuenciaDeTodoRegistro ==
    /\ [](\A k \in 1 .. Len(calificaciones) :
             SecuenciaValida(calificaciones[k].secuencia_evento))
    /\ [][(/\ ultima_op' # ultima_op
           /\ Val(ultima_op').via_save
           /\ Val(ultima_op').secuencia # ""
           /\ ~SecuenciaValida(Val(ultima_op').secuencia))
            => /\ Val(ultima_op').exc = "ValidationError"
               /\ calificaciones' = calificaciones]_vars

\* next to a record that was given its sequence by save, a save with a
\* sequence that is not a number has been rejected
SecuenciaNoNumericaRechazada ==
    /\ Len(calificaciones) = 1
    /\ calificaciones[1].corredor = "B"
    /\ calificaciones[1].secuencia_evento = "10000"
    /\ ultima_op # None
    /\ Val(ultima_op).secuencia = "1e4"
    /\ Val(ultima_op).exc = "ValidationError"
    /\ Val(ultima_op).sin_cambio

\* the factors of the row being processed, as the classifier gets them
FactoresDeLaFila == FactoresDeFila(_normalizar_headers_dataframe(archivo.filas[idx + 1]))

\* the row being processed has a client identifier and an instrument
FilaConObligatorios ==
    /\ TextoDeColumna(_normalizar_headers_dataframe(archivo.filas[idx + 1]),
                      "identificador_cliente") # ""
    /\ TextoDeColumna(_normalizar_headers_dataframe(archivo.filas[idx + 1]),
                      "instrumento") # ""

\* the row of this step was stored rescaled by its total, with
\* factor_actualizacion 1
GuardadaReescalada ==
    /\ Val(ultima').exc = NoExc
    /\ \E k \in 1 .. Len(calificaciones') :
          /\ calificaciones'[k].factores = _normalizar_factores_a_1(FactoresDeLaFila)
          /\ calificaciones'[k].factor_actualizacion = Uno

\* C29: in a MONTO job a row whose factors do not trigger Monto mode is
\* rejected with a validation error and nothing is written for it; a row
\* whose factors trigger it (and that has its mandatory fields) is stored
\* rescaled, with factor_actualizacion 1
FilaDeJobMonto ==
    [][(PasoDeFila /\ archivo_carga.tipo_carga = "MONTO")
          => IF _es_modo_monto(FactoresDeLaFila)
             THEN FilaConObligatorios => GuardadaReescalada
             ELSE /\ Val(ultima').exc.clase = "ValidationError"
                  /\ calificaciones' = calificaciones]_vars

\* C30: a row that is counted as rejected leaves the ledger and the table
\* of countries exactly as they were before the row
FilaRechazadaSinEfecto ==
    [][(PasoDeFila /\ Val(ultima').exc # NoExc)
          => /\ calificaciones' = calificaciones
             /\ paises' = paises]_vars

====
